---- MODULE Spec2Model ----
(***************************************************************************)
(* The n queens solver of n_queens.py: make_board, propagate, add_queen    *)
(* and solve, as a state machine.  The recursion of add_queen is an        *)
(* explicit stack of activations; pc is the position of the top            *)
(* activation.  board[<<x, y>>] is the cell board[x, y] of the NumPy       *)
(* array: x is the column of the queen, y its row.                         *)
(***************************************************************************)
EXTENDS Integers, Sequences, FiniteSets, TLC

\* Bounds of the model.
MaxN == 4          \* widest board solved under every row order
MaxLiveN == 3      \* the same, where termination is checked
MaxSeedN == 8      \* widest board solved under a seeded generator
MaxSeed == 3       \* seeds 1..MaxSeed
MaxGridN == 3      \* widest board of the propagate-only specifications
MaxCalls == 4      \* most propagate calls made there, in any order
MaxDepth == 3      \* most propagate(+1) calls pending there, undone in reverse
MaxCell == 1       \* largest entry of a starting grid there

VARIABLES
    n,        \* width of the chessboard
    mode,     \* "free": shuffle may give any order; "seeded": random.seed was called;
              \* "grid": propagate alone is exercised
    seed,     \* the argument of random.seed
    rng,      \* state of the random generator
    run,      \* 1 or 2: which of the two runs with the same seed
    board,    \* the n x n array
    stack,    \* the activations of add_queen, outermost first
    pc,       \* position of the innermost activation
    result,   \* what solve returned
    trace,    \* seeded runs: the propagate calls of this run, in order
    trace1,   \* the trace of run 1, kept for run 2
    result1,  \* the result of run 1, kept for run 2
    start,    \* propagate-only: the grid before the first call
    calls,    \* the <<x, y>> of the propagate(+1) calls not yet undone, oldest first
    net,      \* propagate-only: per <<x, y>>, the sum of the d of the calls made there
    ncalls    \* propagate-only: the number of calls made

vars == <<n, mode, seed, rng, run, board, stack, pc, result, trace, trace1,
          result1, start, calls, net, ncalls>>

----------------------------------------------------------------------------
\* Values

None == [some |-> FALSE, val |-> <<>>]
Some(q) == [some |-> TRUE, val |-> q]

\* Python's truth value of the value add_queen returned: None and [] are false.
Truthy(v) == v.some /\ Len(v.val) > 0

Cells(m) == (0..(m - 1)) \X (0..(m - 1))

make_board(m) == [c \in Cells(m) |-> 0]

----------------------------------------------------------------------------
\* propagate

\* board[x, :] += d
AddRow(m, b, x, d) == [c \in DOMAIN b |-> IF c[1] = x THEN b[c] + d ELSE b[c]]

\* board[:, y] is left as it is
AddColNone(m, b, y, d) == b

\* board[:, y] += d
AddCol(m, b, y, d) == [c \in DOMAIN b |-> IF c[2] = y THEN b[c] + d ELSE b[c]]

\* board[x, y] -= 1, whatever d is
SubCellOne(b, x, y, d) == [b EXCEPT ![<<x, y>>] = @ - 1]

\* board[x, y] -= d
SubCell(b, x, y, d) == [b EXCEPT ![<<x, y>>] = @ - d]

\* while x1 >= 0 and y1 >= 0
RECURSIVE Walk1(_, _, _, _, _)
Walk1(m, b, x1, y1, d) ==
    IF x1 >= 0 /\ y1 >= 0
    THEN Walk1(m, [b EXCEPT ![<<x1, y1>>] = @ + d], x1 - 1, y1 - 1, d)
    ELSE b

\* while x2 < n and y2 > 0: the walk stops one row early
RECURSIVE Walk2Short(_, _, _, _, _)
Walk2Short(m, b, x2, y2, d) ==
    IF x2 < m /\ y2 > 0
    THEN Walk2Short(m, [b EXCEPT ![<<x2, y2>>] = @ + d], x2 + 1, y2 - 1, d)
    ELSE b

\* while x2 < n and y2 >= 0
RECURSIVE Walk2(_, _, _, _, _)
Walk2(m, b, x2, y2, d) ==
    IF x2 < m /\ y2 >= 0
    THEN Walk2(m, [b EXCEPT ![<<x2, y2>>] = @ + d], x2 + 1, y2 - 1, d)
    ELSE b

\* board[x3, y3] += 1, whatever d is
RECURSIVE Walk3One(_, _, _, _, _)
Walk3One(m, b, x3, y3, d) ==
    IF x3 >= 0 /\ y3 < m
    THEN Walk3One(m, [b EXCEPT ![<<x3, y3>>] = @ + 1], x3 - 1, y3 + 1, d)
    ELSE b

\* while x3 >= 0 and y3 < n
RECURSIVE Walk3(_, _, _, _, _)
Walk3(m, b, x3, y3, d) ==
    IF x3 >= 0 /\ y3 < m
    THEN Walk3(m, [b EXCEPT ![<<x3, y3>>] = @ + d], x3 - 1, y3 + 1, d)
    ELSE b

\* if x4 < n and y4 < n: only the first square of the diagonal
Walk4Once(m, b, x4, y4, d) ==
    IF x4 < m /\ y4 < m
    THEN [b EXCEPT ![<<x4, y4>>] = @ + d]
    ELSE b

\* while x4 < n and y4 < n
RECURSIVE Walk4(_, _, _, _, _)
Walk4(m, b, x4, y4, d) ==
    IF x4 < m /\ y4 < m
    THEN Walk4(m, [b EXCEPT ![<<x4, y4>>] = @ + d], x4 + 1, y4 + 1, d)
    ELSE b

\* propagate without its last diagonal walk
propagateNoWalk4(m, b, x, y, d) ==
    LET b1 == AddRow(m, b, x, d)
        b2 == AddCol(m, b1, y, d)
        b3 == SubCell(b2, x, y, d)
        b4 == Walk1(m, b3, x - 1, y - 1, d)
        b5 == Walk2(m, b4, x + 1, y - 1, d)
    IN  Walk3(m, b5, x - 1, y + 1, d)

propagate(m, b, x, y, d) ==
    LET b1 == AddRow(m, b, x, d)
        b2 == AddCol(m, b1, y, d)
        b3 == SubCell(b2, x, y, d)
        b4 == Walk1(m, b3, x - 1, y - 1, d)
        b5 == Walk2(m, b4, x + 1, y - 1, d)
        b6 == Walk3(m, b5, x - 1, y + 1, d)
    IN  Walk4(m, b6, x + 1, y + 1, d)

\* The indices board[x, :] names
RowCells(m, x) == {<<x, j>> : j \in 0..(m - 1)}

\* The indices board[:, y] names
ColCells(m, y) == {<<i, y>> : i \in 0..(m - 1)}

\* The indices board[x1, y1] of the first while loop
RECURSIVE Walk1Cells(_, _, _)
Walk1Cells(m, x1, y1) ==
    IF x1 >= 0 /\ y1 >= 0
    THEN {<<x1, y1>>} \cup Walk1Cells(m, x1 - 1, y1 - 1)
    ELSE {}

\* The indices board[x2, y2] of the second while loop
RECURSIVE Walk2Cells(_, _, _)
Walk2Cells(m, x2, y2) ==
    IF x2 < m /\ y2 >= 0
    THEN {<<x2, y2>>} \cup Walk2Cells(m, x2 + 1, y2 - 1)
    ELSE {}

\* The indices board[x3, y3] of the third while loop
RECURSIVE Walk3Cells(_, _, _)
Walk3Cells(m, x3, y3) ==
    IF x3 >= 0 /\ y3 < m
    THEN {<<x3, y3>>} \cup Walk3Cells(m, x3 - 1, y3 + 1)
    ELSE {}

\* The indices board[x4, y4] of the fourth while loop
RECURSIVE Walk4Cells(_, _, _)
Walk4Cells(m, x4, y4) ==
    IF x4 < m /\ y4 < m
    THEN {<<x4, y4>>} \cup Walk4Cells(m, x4 + 1, y4 + 1)
    ELSE {}

\* Every index propagate(n, board, x, y, d) reads or writes.
Touched(m, x, y) ==
    RowCells(m, x) \cup ColCells(m, y) \cup {<<x, y>>}
        \cup Walk1Cells(m, x - 1, y - 1) \cup Walk2Cells(m, x + 1, y - 1)
        \cup Walk3Cells(m, x - 1, y + 1) \cup Walk4Cells(m, x + 1, y + 1)

----------------------------------------------------------------------------
\* random.seed and random.shuffle

\* The generator behind random.random(): a deterministic generator of 16 bits
\* stands for the library's; what the solver relies on is only that the next
\* draw is a function of the generator's state.
NextRng(s) == (25173 * s + 13849) % 65536

\* random.seed(a)
SeedRng(a) == (7919 * a + 1337) % 65536

\* x[i], x[j] = x[j], x[i] on a list held as a sequence (index + 1)
Swap(x, i, j) == [x EXCEPT ![i + 1] = x[j + 1], ![j + 1] = x[i + 1]]

\* random.shuffle(x): for i in reversed(range(1, len(x))):
\*                        j = int(random() * (i + 1)); swap x[i], x[j]
\* Gives <<the shuffled list, the generator's state after it>>.
RECURSIVE ShuffleFrom(_, _, _)
ShuffleFrom(x, i, s) ==
    IF i < 1
    THEN <<x, s>>
    ELSE LET s1 == NextRng(s)
             j == (s1 * (i + 1)) \div 65536
         IN  ShuffleFrom(Swap(x, i, j), i - 1, s1)

\* list(range(1, n + 1))
RECURSIVE RangeFromOne(_)
RangeFromOne(m) == IF m <= 0 THEN <<>> ELSE Append(RangeFromOne(m - 1), m)

\* list(range(n))
RECURSIVE Range(_)
Range(m) == IF m <= 0 THEN <<>> ELSE Append(Range(m - 1), m - 1)

\* The orders random.shuffle can leave range(n) in when the generator's state
\* is not known: every permutation.
Orders(m) ==
    {SubSeq(p, 1, m) :
        p \in {f \in [1..m -> 0..(m - 1)] : \A a, b \in 1..m : a # b => f[a] # f[b]}}

----------------------------------------------------------------------------
\* add_queen and solve

\* An activation of add_queen(n, queens, board).
\*   queens     its argument
\*   row_order  the rows the for loop has not yet taken
\*   y          the row of the current iteration (-1 before the first)
\*   seen       the value read from board[x, y] by the test of the iteration
\*   valid      valid_queens
\*   entry      the board when the activation was entered
\*   placed     the number of queens this activation has placed so far
\*   taken      the rows the for loop has taken so far
\*   iters      the number of iterations the for loop has started
Frame(q, b) ==
    [queens |-> q, row_order |-> <<>>, y |-> -1, seen |-> -1, valid |-> None,
     entry |-> b, placed |-> 0, taken |-> {}, iters |-> 0]

Top == stack[Len(stack)]
SetTop(f) == [stack EXCEPT ![Len(stack)] = f]
Pop == SubSeq(stack, 1, Len(stack) - 1)

\* x = len(queens)
X(f) == Len(f.queens)

\* The log of propagate calls is kept for the seeded runs only.
Logged(e) == IF mode = "seeded" THEN Append(trace, e) ELSE trace

\* return v: to solve at the outermost activation, to line 124 of the caller
\* otherwise.
Return(v) ==
    IF Len(stack) = 1
    THEN /\ stack' = <<>>
         /\ pc' = "done"
         /\ result' = v
    ELSE /\ stack' = [Pop EXCEPT ![Len(stack) - 1].valid = v]
         /\ pc' = "undo"
         /\ UNCHANGED result

Solving == mode \in {"free", "seeded"} /\ stack # <<>>

\* if queens and len(queens) == n: an empty list is taken for no solution
ReturnFullNonEmpty ==
    /\ Solving /\ pc = "entry"
    /\ Len(Top.queens) = n
    /\ Return(IF Top.queens = <<>> THEN None ELSE Some(Top.queens))
    /\ UNCHANGED <<n, mode, seed, rng, run, board, trace, trace1, result1, start, calls, net, ncalls>>

\* if len(queens) == n: return queens
ReturnFull ==
    /\ Solving /\ pc = "entry"
    /\ Len(Top.queens) = n
    /\ Return(Some(Top.queens))
    /\ UNCHANGED <<n, mode, seed, rng, run, board, trace, trace1, result1, start, calls, net, ncalls>>

\* row_order = list(range(n)); random.shuffle(row_order), generator not seeded
Shuffle ==
    /\ Solving /\ pc = "entry" /\ mode = "free"
    /\ Len(Top.queens) # n
    /\ \E p \in Orders(n) : stack' = SetTop([Top EXCEPT !.row_order = p])
    /\ pc' = "loop"
    /\ UNCHANGED <<n, mode, seed, rng, run, board, result, trace, trace1, result1, start, calls, net, ncalls>>

\* a shuffle whose order does not come from the seeded generator alone
ShuffleUnseeded ==
    /\ Solving /\ pc = "entry" /\ mode = "seeded"
    /\ Len(Top.queens) # n
    /\ LET r == ShuffleFrom(Range(n), n - 1, rng)
       IN  /\ \E p \in {r[1], Range(n)} : stack' = SetTop([Top EXCEPT !.row_order = p])
           /\ rng' = r[2]
    /\ pc' = "loop"
    /\ UNCHANGED <<n, mode, seed, run, board, result, trace, trace1, result1, start, calls, net, ncalls>>

\* row_order = list(range(n)); random.shuffle(row_order), generator seeded
ShuffleSeeded ==
    /\ Solving /\ pc = "entry" /\ mode = "seeded"
    /\ Len(Top.queens) # n
    /\ LET r == ShuffleFrom(Range(n), n - 1, rng)
       IN  /\ stack' = SetTop([Top EXCEPT !.row_order = r[1]])
           /\ rng' = r[2]
    /\ pc' = "loop"
    /\ UNCHANGED <<n, mode, seed, run, board, result, trace, trace1, result1, start, calls, net, ncalls>>

\* the next row is read but stays in row_order
NextRowKept ==
    /\ Solving /\ pc = "loop"
    /\ Top.row_order # <<>>
    /\ stack' = SetTop([Top EXCEPT !.y = Head(Top.row_order), !.seen = -1,
                                   !.taken = @ \cup {Head(Top.row_order)},
                                   !.iters = @ + 1])
    /\ pc' = "test"
    /\ UNCHANGED <<n, mode, seed, rng, run, board, result, trace, trace1, result1, start, calls, net, ncalls>>

\* for y in row_order: the next row
NextRow ==
    /\ Solving /\ pc = "loop"
    /\ Top.row_order # <<>>
    /\ stack' = SetTop([Top EXCEPT !.y = Head(Top.row_order),
                                   !.row_order = Tail(Top.row_order),
                                   !.seen = -1,
                                   !.taken = @ \cup {Head(Top.row_order)},
                                   !.iters = @ + 1])
    /\ pc' = "test"
    /\ UNCHANGED <<n, mode, seed, rng, run, board, result, trace, trace1, result1, start, calls, net, ncalls>>

\* the for loop is over: return None
ReturnNone ==
    /\ Solving /\ pc = "loop"
    /\ Top.row_order = <<>>
    /\ Return(None)
    /\ UNCHANGED <<n, mode, seed, rng, run, board, trace, trace1, result1, start, calls, net, ncalls>>

\* the test without its continue: a threatened square is taken too
TestNoSkip ==
    /\ Solving /\ pc = "test"
    /\ LET v == board[<<X(Top), Top.y>>]
       IN  /\ stack' = SetTop([Top EXCEPT !.seen = v])
           /\ pc' = "place"
    /\ UNCHANGED <<n, mode, seed, rng, run, board, result, trace, trace1, result1, start, calls, net, ncalls>>

\* if board[x, y] != 0: continue
Test ==
    /\ Solving /\ pc = "test"
    /\ LET v == board[<<X(Top), Top.y>>]
       IN  /\ stack' = SetTop([Top EXCEPT !.seen = v])
           /\ pc' = IF v # 0 THEN "loop" ELSE "place"
    /\ UNCHANGED <<n, mode, seed, rng, run, board, result, trace, trace1, result1, start, calls, net, ncalls>>

\* the propagate(+1) left out
PlaceSkipped ==
    /\ Solving /\ pc = "place"
    /\ stack' = SetTop([Top EXCEPT !.placed = @ + 1])
    /\ calls' = Append(calls, <<X(Top), Top.y>>)
    /\ pc' = "recurse"
    /\ UNCHANGED <<n, mode, seed, rng, run, board, result, trace, trace1, result1, start, net, ncalls>>

\* propagate(n, board, x, y, 1)
Place ==
    /\ Solving /\ pc = "place"
    /\ board' = propagate(n, board, X(Top), Top.y, 1)
    /\ stack' = SetTop([Top EXCEPT !.placed = @ + 1])
    /\ trace' = Logged(<<X(Top), Top.y, 1>>)
    /\ calls' = Append(calls, <<X(Top), Top.y>>)
    /\ pc' = "recurse"
    /\ UNCHANGED <<n, mode, seed, rng, run, result, trace1, result1, start, net, ncalls>>

\* valid_queens = add_queen(n, queens + [y], board): the call
Recurse ==
    /\ Solving /\ pc = "recurse"
    /\ stack' = Append(stack, Frame(Append(Top.queens, Top.y), board))
    /\ pc' = "entry"
    /\ UNCHANGED <<n, mode, seed, rng, run, board, result, trace, trace1, result1, start, calls, net, ncalls>>

\* the undo left out
UndoSkip ==
    /\ Solving /\ pc = "undo"
    /\ pc' = "check"
    /\ UNCHANGED <<n, mode, seed, rng, run, board, stack, result, trace, trace1, result1, start, calls, net, ncalls>>

\* propagate(n, board, x, y, 1) where the undo should be
UndoAdds ==
    /\ Solving /\ pc = "undo"
    /\ board' = propagate(n, board, X(Top), Top.y, 1)
    /\ trace' = Logged(<<X(Top), Top.y, 1>>)
    /\ pc' = "check"
    /\ UNCHANGED <<n, mode, seed, rng, run, stack, result, trace1, result1, start, calls, net, ncalls>>

\* propagate(n, board, x, 0, -1): the undo at row 0 whatever y is
UndoRow0 ==
    /\ Solving /\ pc = "undo"
    /\ board' = propagate(n, board, X(Top), 0, -1)
    /\ trace' = Logged(<<X(Top), 0, -1>>)
    /\ calls' = SubSeq(calls, 1, Len(calls) - 1)
    /\ pc' = "check"
    /\ UNCHANGED <<n, mode, seed, rng, run, stack, result, trace1, result1, start, net, ncalls>>

\* propagate(n, board, x, y, -1)
Undo ==
    /\ Solving /\ pc = "undo"
    /\ board' = propagate(n, board, X(Top), Top.y, -1)
    /\ trace' = Logged(<<X(Top), Top.y, -1>>)
    /\ calls' = SubSeq(calls, 1, Len(calls) - 1)
    /\ pc' = "check"
    /\ UNCHANGED <<n, mode, seed, rng, run, stack, result, trace1, result1, start, net, ncalls>>

\* a solution that came back is dropped and the loop goes on
ReturnValidDropped ==
    /\ Solving /\ pc = "check"
    /\ Truthy(Top.valid)
    /\ pc' = "loop"
    /\ UNCHANGED <<n, mode, seed, rng, run, board, stack, result, trace, trace1, result1, start, calls, net, ncalls>>

\* if valid_queens: return valid_queens
ReturnValid ==
    /\ Solving /\ pc = "check"
    /\ Truthy(Top.valid)
    /\ Return(Top.valid)
    /\ UNCHANGED <<n, mode, seed, rng, run, board, trace, trace1, result1, start, calls, net, ncalls>>

\* valid_queens is None (or empty): return None without trying the rows left
ContinueGivesUp ==
    /\ Solving /\ pc = "check"
    /\ ~Truthy(Top.valid)
    /\ Return(None)
    /\ UNCHANGED <<n, mode, seed, rng, run, board, trace, trace1, result1, start, calls, net, ncalls>>

\* valid_queens is None (or empty): the next iteration
Continue ==
    /\ Solving /\ pc = "check"
    /\ ~Truthy(Top.valid)
    /\ pc' = "loop"
    /\ UNCHANGED <<n, mode, seed, rng, run, board, stack, result, trace, trace1, result1, start, calls, net, ncalls>>

\* The second run: random.seed(seed) again, then solve(n) again.
Rerun ==
    /\ mode = "seeded" /\ pc = "done" /\ run = 1
    /\ run' = 2
    /\ rng' = SeedRng(seed)
    /\ trace1' = trace
    /\ result1' = result
    /\ trace' = <<>>
    /\ result' = None
    /\ board' = make_board(n)
    /\ stack' = <<Frame(<<>>, make_board(n))>>
    /\ pc' = "entry"
    /\ UNCHANGED <<n, mode, seed, start, calls, net, ncalls>>

\* solve(n): add_queen(n, [], make_board(n)), with the generator unseeded
\* (any order) or seeded by random.seed(seed).
InitUpTo(maxFree) ==
    /\ \/ mode = "free" /\ n \in 0..maxFree /\ seed = 0 /\ rng = 0
       \/ mode = "seeded" /\ n \in 0..MaxSeedN /\ seed \in 1..MaxSeed
                          /\ rng = SeedRng(seed)
    /\ run = 1
    /\ board = make_board(n)
    /\ stack = <<Frame(<<>>, make_board(n))>>
    /\ pc = "entry"
    /\ result = None
    /\ trace = <<>>
    /\ trace1 = <<>>
    /\ result1 = None
    /\ start = make_board(n)
    /\ calls = <<>>
    /\ net = make_board(n)
    /\ ncalls = 0

Init == InitUpTo(MaxN)

Next ==
    \/ ReturnFull
    \/ Shuffle
    \/ ShuffleSeeded
    \/ NextRow
    \/ ReturnNone
    \/ Test
    \/ Place
    \/ Recurse
    \/ Undo
    \/ ReturnValid
    \/ Continue
    \/ Rerun

Spec == Init /\ [][Next]_vars

----------------------------------------------------------------------------
\* Properties of solve and add_queen

Abs(a) == IF a < 0 THEN -a ELSE a

\* No two of the queens q[1..Len(q)] (columns 0..Len(q)-1) share a row or a
\* diagonal, and every row is a row of the board.
NonAttacking(q, m) ==
    /\ \A i \in 1..Len(q) : q[i] \in 0..(m - 1)
    /\ \A i, j \in 1..Len(q) :
          i # j => q[i] # q[j] /\ Abs(q[i] - q[j]) # Abs(i - j)

Done == pc = "done"

\* C1: a list returned by solve(n) has n entries, each a row of the board,
\* and no two of its queens share a row or a diagonal.
C1_SolutionValid ==
    (Done /\ result.some) => Len(result.val) = n /\ NonAttacking(result.val, n)

C1_Witness ==
    Done /\ result.some /\ mode = "free" /\ n = 4 /\ NonAttacking(result.val, n)

\* C2: solve(n) returns a solution for n in {1, 4, 5, 6, 7, 8} and None for
\* n = 2 and n = 3.
C2_SmallBoards ==
    Done => /\ n \in {1, 4, 5, 6, 7, 8} => result.some
            /\ n \in {2, 3} => result = None

C2_Witness == Done /\ n = 8 /\ result.some /\ Len(result.val) = 8

\* C3: when an activation of add_queen returns, with a solution or with None,
\* the board is the board it was entered with.
C3_BoardRestored ==
    [][(Solving /\ Len(stack') < Len(stack)) => board' = Top.entry]_vars

\* An inner activation that placed queens, undid them and is about to return None.
C3_Witness ==
    /\ Solving /\ Len(stack) >= 2
    /\ pc = "loop" /\ Top.row_order = <<>> /\ Top.placed >= 1
    /\ board = Top.entry

\* The queens whose propagate(+1) has not been undone: the current queen of
\* every activation that is in its recursive call, and of the innermost one
\* between its two propagate calls.
PlacedQueens ==
    {<<X(stack[i]), stack[i].y>> : i \in
        {k \in 1..Len(stack) : k < Len(stack) \/ pc \in {"recurse", "undo"}}}

\* The row, the column or a diagonal of the queen at q passes through c
\* (q itself included).
OnLine(q, c) ==
    \/ q[1] = c[1]
    \/ q[2] = c[2]
    \/ Abs(q[1] - c[1]) = Abs(q[2] - c[2])

\* C4 as stated: every cell counts the placed queens whose lines pass through
\* it, a queen on the cell itself not counted.
C4_CountExcludingSelf ==
    Solving =>
        LET placed == PlacedQueens
        IN  \A c \in Cells(n) :
                board[c] = Cardinality({q \in placed : q # c /\ OnLine(q, c)})

\* C4, amended: every cell counts the placed queens whose lines pass through
\* it, a queen on the cell itself included (its own square holds 1 for it).
C4_CountIncludingSelf ==
    Solving =>
        LET placed == PlacedQueens
        IN  \A c \in Cells(n) :
                board[c] = Cardinality({q \in placed : OnLine(q, c)})

C4_Witness ==
    /\ Solving /\ Cardinality(PlacedQueens) >= 3
    /\ \A q \in PlacedQueens : board[q] = 1

\* C8: solve(0) returns [] at once: no shuffle (the generator is untouched),
\* no read of the board, no propagate; solve(1) returns [0].
C8_Boundary ==
    /\ n = 0 =>
          /\ pc \in {"entry", "done"}
          /\ rng = (IF mode = "seeded" THEN SeedRng(seed) ELSE 0)
          /\ board = make_board(0)
          /\ trace = <<>>
          /\ Done => result = Some(<<>>)
    /\ (n = 1 /\ Done) => result = Some(<<0>>)

C8_Witness == n = 0 /\ Done /\ result = Some(<<>>) /\ stack = <<>>

\* C10: the queens of every activation are rows of the board, no two sharing
\* a row or a diagonal, and the queen of column x was appended after
\* board[x, y] was read as 0.
C10_QueensConsistent ==
    Solving =>
        /\ \A i \in 1..Len(stack) : NonAttacking(stack[i].queens, n)
        /\ \A i \in 2..Len(stack) :
              /\ stack[i].queens = Append(stack[i - 1].queens, stack[i - 1].y)
              /\ stack[i - 1].seen = 0
        /\ pc \in {"place", "recurse"} => Top.seen = 0

C10_Witness ==
    /\ Solving /\ Len(stack) >= 4 /\ pc = "entry"
    /\ NonAttacking(Top.queens, n) /\ stack[Len(stack) - 1].seen = 0

\* The program runs on while it has a step to take.
InitLive == InitUpTo(MaxLiveN)

FairSpec == InitLive /\ [][Next]_vars /\ WF_vars(Next)

\* How far activation i is from its end: the rows its loop has left, then its
\* position in the iteration (an activation below the top is in its call).
Remaining(i) ==
    LET f == stack[i]
        at == IF i < Len(stack) THEN "call" ELSE pc
    IN  IF at = "entry"
        THEN 8 * (n + 1) + 1
        ELSE 8 * Len(f.row_order) + 1 +
             (CASE at = "test" -> 6
                [] at = "place" -> 5
                [] at = "recurse" -> 4
                [] at = "call" -> 3
                [] at = "undo" -> 2
                [] at = "check" -> 1
                [] OTHER -> 0)

\* The search state: per activation, outermost first, what it has left.
Measure == [i \in 1..Len(stack) |-> Remaining(i)]

At(a, k) == IF k <= Len(a) THEN a[k] ELSE 0

\* a comes before b in the lexicographic order (a missing entry counts 0)
LexLess(a, b) ==
    \E k \in 1..(Len(a) + Len(b)) :
        /\ At(a, k) < At(b, k)
        /\ \A j \in 1..(k - 1) : At(a, j) = At(b, j)

IsPrefix(a, b) == Len(a) <= Len(b) /\ a = SubSeq(b, 1, Len(a))

----------------------------------------------------------------------------
\* propagate alone, on grids that need not come from a solve

\* The starting grids: the constant grids and the grids whose cells differ.
StartGrids(m) ==
    {[c \in Cells(m) |-> (v + w * (c[1] + m * c[2])) % (MaxCell + 2)] :
        v \in 0..MaxCell, w \in 0..1}

GridInit ==
    /\ mode = "grid"
    /\ n \in 1..MaxGridN
    /\ start \in StartGrids(n)
    /\ board = start
    /\ calls = <<>>
    /\ net = make_board(n)
    /\ ncalls = 0
    /\ pc = "calls"
    /\ seed = 0 /\ rng = 0 /\ run = 1
    /\ stack = <<>>
    /\ result = None
    /\ trace = <<>>
    /\ trace1 = <<>>
    /\ result1 = None

\* propagate(n, board, x, y, d), for any in-range x, y and d = +1 or -1
Apply(x, y, d) ==
    /\ mode = "grid" /\ pc = "calls"
    /\ ncalls < MaxCalls
    /\ board' = propagate(n, board, x, y, d)
    /\ net' = [net EXCEPT ![<<x, y>>] = @ + d]
    /\ ncalls' = ncalls + 1
    /\ UNCHANGED <<n, mode, seed, rng, run, stack, pc, result, trace, trace1, result1, start, calls>>

GridNext == \E x, y \in 0..(n - 1) : \E d \in {1, -1} : Apply(x, y, d)

GridSpec == GridInit /\ [][GridNext]_vars

\* propagate(n, board, x, y, 1), remembered as pending
Push(x, y) ==
    /\ mode = "grid" /\ pc = "calls"
    /\ Len(calls) < MaxDepth
    /\ board' = propagate(n, board, x, y, 1)
    /\ calls' = Append(calls, <<x, y>>)
    /\ ncalls' = ncalls + 1
    /\ UNCHANGED <<n, mode, seed, rng, run, stack, pc, result, trace, trace1, result1, start, net>>

\* propagate(n, board, x, y, -1) at the coordinates of the last pending call
PopLast ==
    /\ mode = "grid" /\ pc \in {"calls", "undos"}
    /\ calls # <<>>
    /\ LET c == calls[Len(calls)]
       IN  board' = propagate(n, board, c[1], c[2], -1)
    /\ calls' = SubSeq(calls, 1, Len(calls) - 1)
    /\ pc' = "undos"
    /\ ncalls' = ncalls + 1
    /\ UNCHANGED <<n, mode, seed, rng, run, stack, result, trace, trace1, result1, start, net>>

StackNext == (\E x, y \in 0..(n - 1) : Push(x, y)) \/ PopLast

StackSpec == GridInit /\ [][StackNext]_vars


----------------------------------------------------------------------------
\* Properties of propagate

\* C5: propagate(+1) at (r1, c1), ..., (rk, ck) and then propagate(-1) at the
\* same squares in reverse order leaves the grid it started from, cell for cell.
C5_PushPopRestores ==
    (mode = "grid" /\ pc = "undos" /\ calls = <<>>) => board = start

\* Three squares applied and undone in reverse on the widest board.
C5_Witness ==
    /\ mode = "grid" /\ pc = "undos" /\ calls = <<>>
    /\ n >= 3 /\ ncalls >= 6
    /\ board = start

\* What one propagate(+1) at q adds to an empty grid.
Unit(q) == propagate(n, make_board(n), q[1], q[2], 1)

RECURSIVE SumOver(_, _)
SumOver(f, S) ==
    IF S = {}
    THEN 0
    ELSE LET q == CHOOSE q \in S : TRUE
         IN  f[q] + SumOver(f, S \ {q})

\* C9: the grid after any calls, in any order, is the starting grid plus, per
\* square, the sum of the d applied there times what one propagate(+1) there
\* adds: it depends on those sums alone, and sums of zero leave the grid as
\* it was.
C9_Linear ==
    mode = "grid" =>
        LET unit == [q \in Cells(n) |-> Unit(q)]
        IN  \A c \in Cells(n) :
                board[c] =
                    start[c] + SumOver([q \in Cells(n) |-> net[q] * unit[q][c]], Cells(n))

\* Four calls whose d sum to zero at every square (+1, +1, -1, -1 at one square
\* among them).
C9_Witness ==
    /\ mode = "grid" /\ n >= 3 /\ ncalls = 4
    /\ \A q \in Cells(n) : net[q] = 0
    /\ board = start


----------------------------------------------------------------------------
\* Further properties of solve and add_queen

\* C11: between propagate calls no cell of the board is negative.
C11_NonNegative ==
    (Solving \/ Done) => \A c \in Cells(n) : board[c] >= 0

\* An inner activation has just undone a queen on a board that still holds
\* the queens of its callers.
C11_Witness ==
    /\ Solving /\ pc = "check" /\ Len(stack) >= 3
    /\ \E c \in Cells(n) : board[c] = 0
    /\ \A c \in Cells(n) : board[c] >= 0

\* No queen (i, q[i]) of the columns before x = Len(q) shares row y or a
\* diagonal with (x, y).
SafeSquare(q, y) ==
    \A i \in 1..Len(q) : q[i] # y /\ Abs(q[i] - y) # Abs((i - 1) - Len(q))

\* C13: the square (x, y) an activation tests holds 0 exactly when no placed
\* queen shares its row or a diagonal with it; the value the test read is 0
\* exactly in that case, and the activation goes on to place a queen only
\* after reading 0.
C13_PruningExact ==
    Solving =>
        /\ pc = "test" =>
              (board[<<X(Top), Top.y>>] = 0 <=> SafeSquare(Top.queens, Top.y))
        /\ \A i \in 1..Len(stack) :
              stack[i].seen # -1 =>
                  (stack[i].seen = 0 <=> SafeSquare(stack[i].queens, stack[i].y))
        /\ pc \in {"place", "recurse", "undo", "check"} => Top.seen = 0
        /\ \A i \in 1..(Len(stack) - 1) : stack[i].seen = 0

\* A square about to be tested that is attacked along a diagonal only.
C13_Witness ==
    /\ Solving /\ pc = "test" /\ Len(Top.queens) >= 2
    /\ \A i \in 1..Len(Top.queens) : Top.queens[i] # Top.y
    /\ board[<<X(Top), Top.y>>] # 0
    /\ ~SafeSquare(Top.queens, Top.y)

\* Some valid placement of m queens has q as its first Len(q) columns.
RECURSIVE Extends(_, _)
Extends(q, m) ==
    \/ Len(q) = m
    \/ \E y \in 0..(m - 1) : SafeSquare(q, y) /\ Extends(Append(q, y), m)

CanExtend(q, m) == NonAttacking(q, m) /\ Extends(q, m)

\* v is a valid placement of n queens whose first columns are q.
SolutionFrom(v, q) ==
    /\ v.some /\ Len(v.val) = n /\ NonAttacking(v.val, n)
    /\ IsPrefix(q, v.val)

\* The value handed over by a step that ends the innermost activation.
Returned == IF stack' = <<>> THEN result' ELSE stack'[Len(stack')].valid

\* C14: for n >= 1 an activation returns None only when no valid placement of
\* n queens extends its queens, and then it has taken every row of 0..n-1
\* exactly once, each either skipped as attacked or recursed into with None
\* coming back; any other value it returns is such a placement; after a child
\* returns None the caller goes on with the rows it has left.
C14_Exhaustive ==
    /\ [][(Solving /\ n >= 1 /\ Len(stack') < Len(stack)) =>
             IF Returned = None
             THEN /\ ~CanExtend(Top.queens, n)
                  /\ Top.row_order = <<>>
                  /\ Top.iters = n
                  /\ Top.taken = 0..(n - 1)
                  /\ Top.placed = Cardinality({y \in 0..(n - 1) : SafeSquare(Top.queens, y)})
             ELSE SolutionFrom(Returned, Top.queens)]_vars
    /\ [][(Solving /\ n >= 1 /\ pc = "check" /\ Top.valid = None) =>
             /\ ~CanExtend(Append(Top.queens, Top.y), n)
             /\ pc' = "loop"
             /\ stack' = stack]_vars

\* An inner activation at the end of its loop that has recursed at least
\* once and is about to return None.
C14_Witness ==
    /\ Solving /\ n >= 4 /\ Len(stack) >= 2
    /\ pc = "loop" /\ Top.row_order = <<>>
    /\ Top.iters = n /\ Top.placed >= 1
    /\ ~CanExtend(Top.queens, n)

\* An activation holds a solution that a call below it has returned.
Found == Solving /\ pc \in {"undo", "check"} /\ Top.valid.some

\* C15: an activation whose queens has length n returns exactly that
\* sequence; from then on every step either undoes the pending propagate of
\* the activation that holds the solution or returns the same sequence one
\* level up: no row is tested, the board only decreases, no call is added to
\* the pending ones, the stack never grows, and a solution at line 130 is
\* always returned.
C15_ShortCircuit ==
    /\ [][(Solving /\ pc = "entry" /\ Len(Top.queens) = n) =>
             /\ Returned = Some(Top.queens)
             /\ pc' \in {"undo", "done"}
             /\ Len(stack') = Len(stack) - 1
             /\ board' = board /\ calls' = calls]_vars
    /\ [][Found =>
             /\ Returned = Top.valid
             /\ pc' \in {"undo", "check", "done"}
             /\ Len(stack') <= Len(stack)
             /\ Len(calls') <= Len(calls)
             /\ \A c \in Cells(n) : board'[c] <= board[c]
             /\ pc = "check" => Len(stack') = Len(stack) - 1
             /\ pc = "undo" => pc' = "check" /\ stack' = stack]_vars

\* A solution on its way up, two levels or more below solve, after the undo
\* of the activation that holds it.
C15_Witness ==
    /\ Found /\ pc = "check" /\ Len(stack) >= 3
    /\ Len(Top.valid.val) = n /\ n >= 4

\* C16: every propagate(-1) of a solve is made at the coordinates of the
\* latest propagate(+1) not yet undone and undoes that one; whenever an
\* activation is entered, is at the head of its loop or tests a row, the
\* propagate(+1) calls not yet undone are exactly those at (i, queens[i]),
\* i < len(queens), in that order; none is left when solve has returned.
C16_StackDiscipline ==
    /\ [][(Solving /\ pc = "undo") =>
             /\ calls # <<>>
             /\ calls[Len(calls)] = <<X(Top), Top.y>>
             /\ board' = propagate(n, board, calls[Len(calls)][1],
                                   calls[Len(calls)][2], -1)
             /\ calls' = SubSeq(calls, 1, Len(calls) - 1)]_vars
    /\ []((Solving /\ pc \in {"entry", "loop", "test"}) =>
             /\ Len(calls) = Len(Top.queens)
             /\ Len(calls) = Len(stack) - 1
             /\ \A i \in 1..Len(calls) : calls[i] = <<i - 1, Top.queens[i]>>)
    /\ [](Done => calls = <<>>)

\* A backtracking undo three levels down: the child returned None and the
\* latest of at least three pending calls is the one about to be undone.
C16_Witness ==
    /\ Solving /\ pc = "undo" /\ Top.valid = None
    /\ Len(calls) >= 3
    /\ calls[Len(calls)] = <<X(Top), Top.y>>
    /\ Top.y # 0

\* C17: wherever add_queen reads board[x, y] or calls propagate at (x, y),
\* 0 <= x < n and 0 <= y < n, and every index that propagate call uses (its
\* row, its column, the square itself and the four diagonal walks) is a cell
\* of the n by n board.
C17_InBounds ==
    (Solving /\ pc \in {"test", "place", "undo"}) =>
        /\ X(Top) \in 0..(n - 1)
        /\ Top.y \in 0..(n - 1)
        /\ pc \in {"place", "undo"} => Touched(n, X(Top), Top.y) \subseteq Cells(n)

\* A propagate(+1) on the last row of the board, away from column 0, whose
\* second walk has at least one square.
C17_Witness ==
    /\ Solving /\ pc = "place" /\ n >= 4
    /\ X(Top) >= 1 /\ X(Top) < n - 1 /\ Top.y = n - 1
    /\ <<X(Top) + 1, n - 2>> \in Touched(n, X(Top), Top.y)
    /\ Touched(n, X(Top), Top.y) \subseteq Cells(n)

----------------------------------------------------------------------------
\* Further properties of propagate

\* C12: propagate(n, board, x, y, d) changes every cell other than (x, y)
\* that shares a row, a column or a diagonal with (x, y) by exactly d, and
\* leaves every cell that shares none unchanged.
C12_PropagateEffect ==
    [][mode = "grid" =>
          \E q \in Cells(n) : \E d \in {1, -1} :
              /\ net' = [net EXCEPT ![q] = @ + d]
              /\ \A c \in Cells(n) \ {q} :
                    board'[c] = board[c] + (IF OnLine(q, c) THEN d ELSE 0)]_vars

\* propagate(+1) at the corner (0, 0) of a 3 x 3 grid: the far end of the
\* diagonal is raised, the squares off its lines are not.
C12_Witness ==
    /\ mode = "grid" /\ n = 3 /\ ncalls = 1
    /\ net[<<0, 0>>] = 1
    /\ board[<<2, 2>>] = start[<<2, 2>>] + 1
    /\ board[<<1, 2>>] = start[<<1, 2>>]
    /\ board[<<2, 1>>] = start[<<2, 1>>]

====
